---------------------------- MODULE Spec2Model ----------------------------
(* A model of postgres_secrets: the pgpass document (an ordered list of    *)
(* credential patterns), its query resolution, its text grammar (parser)   *)
(* and its encoder.  Strings are sequences of one-character strings.       *)
EXTENDS Integers, Sequences, FiniteSets, TLC

VARIABLES
    patterns,    \* PgPass.patterns (and the parser's local `patterns` vector)
    query,       \* the CredentialQuery of the last find
    found,       \* what the last find returned
    input,       \* the text handed to the parser
    remaining,   \* the parser's `remaining` slice
    result,      \* what the parser returned
    pc,          \* position of the parser's loop, then of the round trip
    sink,        \* the bytes written by save_into
    reread,      \* what reading the sink back returned
    builder      \* the CredentialPattern a chain of setters is building

vars == <<patterns, query, found, input, remaining, result, pc, sink, reread, builder>>

-----------------------------------------------------------------------------
(* Program constants.                                                      *)

DELIMITER_CHAR == ":"
COMMENT_CHAR == "#"
ESCAPE_CHAR == "\\"
WILDCARD_CHAR == "*"
ESCAPABLE == {ESCAPE_CHAR, WILDCARD_CHAR, DELIMITER_CHAR}
CR == "\r"
LF == "\n"
DEFAULT_PORT == 5432

-----------------------------------------------------------------------------
(* Data model.  Option<T> is a record: None has some = FALSE.              *)

None == [some |-> FALSE, v |-> <<>>]
Some(s) == [some |-> TRUE, v |-> s]
NonePort == [some |-> FALSE, v |-> 0]
SomePort(n) == [some |-> TRUE, v |-> n]

\* Option::or
Or(a, b) == IF a.some THEN a ELSE b

CredentialPattern(h, p, d, u, pw) ==
    [hostname |-> h, port |-> p, database |-> d, username |-> u, password |-> pw]

CredentialQuery(h, p, d, u) ==
    [hostname |-> h, port |-> p, database |-> d, username |-> u]

DefaultQuery == CredentialQuery(None, NonePort, None, None)

Credentials(h, p, d, u, pw) ==
    [hostname |-> h, port |-> p, database |-> d, username |-> u, password |-> pw]

NoCredentials == Credentials(<<>>, 0, <<>>, <<>>, <<>>)

\* Result<Credentials, IncompleteCredential> and Result<Option<Credentials>, _>
CredsOk(c) == [tag |-> "Some", creds |-> c, err |-> "-"]
CredsNone == [tag |-> "None", creds |-> NoCredentials, err |-> "-"]
CredsErr(e) == [tag |-> "Err", creds |-> NoCredentials, err |-> e]
NotCalled == [tag |-> "idle", creds |-> NoCredentials, err |-> "-"]

-----------------------------------------------------------------------------
(* Query resolution.                                                       *)

\* impl TryFrom<CredentialPattern<HasPasswordTrue>> for Credentials
try_from_mut_order(value) ==
    IF ~value.database.some THEN CredsErr("MissingDatabase")
    ELSE IF ~value.hostname.some THEN CredsErr("MissingHostname")
    ELSE IF ~value.username.some THEN CredsErr("MissingUsername")
    ELSE CredsOk(Credentials(value.hostname.v,
                             IF value.port.some THEN value.port.v ELSE DEFAULT_PORT,
                             value.database.v, value.username.v, value.password))

try_from(value) ==
    IF ~value.hostname.some THEN CredsErr("MissingHostname")
    ELSE IF ~value.database.some THEN CredsErr("MissingDatabase")
    ELSE IF ~value.username.some THEN CredsErr("MissingUsername")
    ELSE CredsOk(Credentials(value.hostname.v,
                             IF value.port.some THEN value.port.v ELSE DEFAULT_PORT,
                             value.database.v, value.username.v, value.password))

\* exact, with the port counted among the fields that must be concrete
exact_mut_port(self) ==
    self.hostname.some /\ self.port.some /\ self.database.some /\ self.username.some

\* CredentialPattern::exact
exact(self) == self.hostname.some /\ self.database.some /\ self.username.some

\* PgPass::pattern_to_creds, with the row's port dropped from the merge
pattern_to_creds_mut_port(q, pattern) ==
    try_from(CredentialPattern(Or(q.hostname, pattern.hostname),
                               q.port,
                               Or(q.database, pattern.database),
                               Or(q.username, pattern.username),
                               pattern.password))

\* PgPass::pattern_to_creds, with the database merged from the username
pattern_to_creds_mut_copy(q, pattern) ==
    try_from(CredentialPattern(Or(q.hostname, pattern.hostname),
                               Or(q.port, pattern.port),
                               Or(q.username, pattern.username),
                               Or(q.username, pattern.username),
                               pattern.password))

pattern_to_creds(q, pattern) ==
    try_from(CredentialPattern(Or(q.hostname, pattern.hostname),
                               Or(q.port, pattern.port),
                               Or(q.database, pattern.database),
                               Or(q.username, pattern.username),
                               pattern.password))

\* `if let Some((a, b)) = q.zip(p) { if a != b { continue; } }`
Differs(q, p) == q.some /\ p.some /\ q.v # p.v

\* the four `continue` tests of one iteration of find's loop
Skips_mut_port(q, pattern) ==
    \/ Differs(q.hostname, pattern.hostname)
    \/ Differs(q.database, pattern.database)
    \/ Differs(q.username, pattern.username)

Skips(q, pattern) ==
    \/ Differs(q.hostname, pattern.hostname)
    \/ Differs(q.port, pattern.port)
    \/ Differs(q.database, pattern.database)
    \/ Differs(q.username, pattern.username)

RECURSIVE find_from(_, _, _)
find_from(pats, q, i) ==
    IF i > Len(pats) THEN CredsNone
    ELSE IF Skips(q, pats[i]) THEN find_from(pats, q, i + 1)
    ELSE pattern_to_creds(q, pats[i])

RECURSIVE find_from_mut_fallthrough(_, _, _)
find_from_mut_fallthrough(pats, q, i) ==
    IF i > Len(pats) THEN CredsNone
    ELSE IF Skips(q, pats[i]) \/ pattern_to_creds(q, pats[i]).tag = "Err"
         THEN find_from_mut_fallthrough(pats, q, i + 1)
    ELSE pattern_to_creds(q, pats[i])

\* PgPass::find, resuming a failed merge at the next row
find_mut_fallthrough(pats, q) == find_from_mut_fallthrough(pats, q, 1)

RECURSIVE find_from_mut_last(_, _, _)
find_from_mut_last(pats, q, i) ==
    IF i < 1 THEN CredsNone
    ELSE IF Skips(q, pats[i]) THEN find_from_mut_last(pats, q, i - 1)
    ELSE pattern_to_creds(q, pats[i])

\* PgPass::find, iterating from the last row to the first
find_mut_last(pats, q) == find_from_mut_last(pats, q, Len(pats))

\* PgPass::find
find(pats, q) == find_from(pats, q, 1)

-----------------------------------------------------------------------------
(* Parser results and errors.  A parser returns IResult<&str, O, E>:       *)
(* Ok((remaining, value)) or Err(nom::Err::Error(e)).                      *)

Rest(s, n) == SubSeq(s, n + 1, Len(s))

POk(rem, val) == [ok |-> TRUE, rem |-> rem, val |-> val]
PErr(e) == [ok |-> FALSE, err |-> e, level |-> "Error"]

\* FieldError and PortError values
NoFieldError == [kind |-> "-", ch |-> "-", num |-> <<>>, ek |-> "-"]
FieldError(kind) == [kind |-> kind, ch |-> "-", num |-> <<>>, ek |-> "-"]
InvalidEscape(c) == [kind |-> "InvalidEscape", ch |-> c, num |-> <<>>, ek |-> "-"]
InvalidPortNumber(n) == [kind |-> "InvalidPortNumber", ch |-> "-", num |-> n, ek |-> "-"]
Unknown(ek) == [kind |-> "Unknown", ch |-> "-", num |-> <<>>, ek |-> ek]
\* nom::error::Error, the error type of the parsers whose error is discarded
NomError(ek) == [kind |-> "nom::error::Error", ch |-> "-", num |-> <<>>, ek |-> ek]

\* ParsingError values
ParsingError(col, e) == [col |-> col, e |-> e]
UnrecognizedColumn == ParsingError("UnrecognizedColumn", NoFieldError)
NoParsingError == ParsingError("-", NoFieldError)

\* impl ParseError<&str> for FieldError: from_error_kind
FieldError_from_error_kind(kind) ==
    IF kind = "EscapedTransform" THEN FieldError("InvalidEscapeNoChar")
    ELSE Unknown(kind)

\* impl ParseError<&str> for FieldError: append
FieldError_append_mut(i, kind, other) == other

\* append, storing the last character of the input
FieldError_append_mut_last(i, kind, other) ==
    IF kind = "Alt"
    THEN IF i = <<>> THEN FieldError("InvalidEscapeNoChar")
         ELSE InvalidEscape(i[Len(i)])
    ELSE other

FieldError_append(i, kind, other) ==
    IF kind = "Alt"
    THEN IF i = <<>> THEN FieldError("InvalidEscapeNoChar")
         ELSE InvalidEscape(i[1])
    ELSE other

\* impl ParseError<&str> for PortError: from_error_kind
PortError_from_error_kind(kind) ==
    IF kind = "Tag" THEN FieldError("Undelimited") ELSE Unknown(kind)

-----------------------------------------------------------------------------
(* Field codec (parser/field.rs).                                          *)

\* wildcard: tag(WILDCARD)
wildcard(s) ==
    IF s # <<>> /\ s[1] = WILDCARD_CHAR THEN POk(Rest(s, 1), <<>>)
    ELSE PErr(NomError("Tag"))

\* none_of("\\:*\r\n"), the `normal` parser of field_value
NormalChar(c) == c \notin {ESCAPE_CHAR, DELIMITER_CHAR, WILDCARD_CHAR, CR, LF}

\* alt((value(ESCAPE, tag(ESCAPE)), value(DELIMITER, tag(DELIMITER)),
\*      value(WILDCARD, tag(WILDCARD)))), the `transform` parser of field_value
transform_mut_any(s) ==
    IF s # <<>> THEN POk(Rest(s, 1), <<s[1]>>)
    ELSE PErr(FieldError_append(s, "Alt", FieldError_from_error_kind("Tag")))

transform(s) ==
    IF s # <<>> /\ s[1] \in {ESCAPE_CHAR, DELIMITER_CHAR, WILDCARD_CHAR}
    THEN POk(Rest(s, 1), <<s[1]>>)
    ELSE PErr(FieldError_append(s, "Alt", FieldError_from_error_kind("Tag")))

\* nom::bytes::complete::escaped_transform(normal, ESCAPE_CHAR, transform):
\* its loop from byte offset `index` with `res` built so far
RECURSIVE escaped_transform(_, _, _)
RECURSIVE escaped(_, _, _)

\* the arm of the loop after the control character, t the result of `transform`
escaped(i, res, t) ==
    IF ~t.ok THEN t
    ELSE IF Len(t.rem) = 0 THEN POk(<<>>, res \o t.val)
    ELSE escaped_transform(i, Len(i) - Len(t.rem), res \o t.val)

escaped_transform(i, index, res) ==
    IF ~(index < Len(i)) THEN POk(i, res)
    ELSE IF NormalChar(i[index + 1])
    THEN IF Len(i) - (index + 1) = 0 THEN POk(<<>>, Append(res, i[index + 1]))
         ELSE IF Len(i) - (index + 1) = Len(i) THEN POk(Rest(i, index), Append(res, i[index + 1]))
         ELSE escaped_transform(i, index + 1, Append(res, i[index + 1]))
    ELSE IF i[index + 1] = ESCAPE_CHAR
    THEN IF index + 1 >= Len(i)
         THEN PErr(FieldError_from_error_kind("EscapedTransform"))
         ELSE escaped(i, res, transform(Rest(i, index + 1)))
    ELSE IF index = 0
         THEN PErr(FieldError_from_error_kind("EscapedTransform"))
         ELSE POk(Rest(i, index), res)

field_value(s) ==
    IF s = <<>> \/ s[1] = DELIMITER_CHAR THEN PErr(FieldError("Empty"))
    ELSE escaped_transform(s, 0, <<>>)

\* `let (remaining, x) = r?; Ok((remaining, Some(x)))`
\* (a parser's result is bound once, as the value of a singleton's member)
OkSome(res) ==
    CHOOSE out \in { IF r.ok THEN POk(r.rem, Some(r.val)) ELSE r : r \in {res} } : TRUE

field(s) ==
    IF wildcard(s).ok THEN POk(wildcard(s).rem, None)
    ELSE OkSome(field_value(s))

\* required_field without the test of the wildcard
required_field_mut_any(s) == field_value(s)

required_field(s) ==
    IF wildcard(s).ok THEN PErr(FieldError("Required"))
    ELSE field_value(s)

-----------------------------------------------------------------------------
(* Port field (parser/port.rs).  A number is its canonical decimal text,   *)
(* so that values beyond u32 are told apart without overflow.              *)

Digits == <<"0", "1", "2", "3", "4", "5", "6", "7", "8", "9">>
IsDigit(c) == \E i \in 1..10 : Digits[i] = c
DigitVal(c) == (CHOOSE i \in 1..10 : Digits[i] = c) - 1

\* digit1: the longest non-empty prefix of decimal digits
RECURSIVE DigitPrefixLen(_)
DigitPrefixLen(s) ==
    IF s # <<>> /\ IsDigit(s[1]) THEN 1 + DigitPrefixLen(Tail(s)) ELSE 0

\* canonical decimal text: leading zeros removed ("0" for zero)
RECURSIVE Canonical(_)
Canonical(ds) ==
    IF Len(ds) > 1 /\ ds[1] = "0" THEN Canonical(Tail(ds)) ELSE ds

\* a <= b for canonical decimal texts
RECURSIVE LexLeq(_, _)
LexLeq(a, b) ==
    IF a = <<>> THEN TRUE
    ELSE IF DigitVal(a[1]) # DigitVal(b[1]) THEN DigitVal(a[1]) < DigitVal(b[1])
    ELSE LexLeq(Tail(a), Tail(b))

DecLeq(a, b) == Len(a) < Len(b) \/ (Len(a) = Len(b) /\ LexLeq(a, b))

U32_MAX == <<"4", "2", "9", "4", "9", "6", "7", "2", "9", "5">>
U16_MAX == <<"6", "5", "5", "3", "5">>

\* the value of a canonical decimal text known to fit u16
RECURSIVE DecValue(_)
DecValue(ds) ==
    IF ds = <<>> THEN 0 ELSE DecValue(SubSeq(ds, 1, Len(ds) - 1)) * 10 + DigitVal(ds[Len(ds)])

\* u16::to_string
RECURSIVE to_string(_)
to_string(n) ==
    IF n < 10 THEN <<Digits[n + 1]>>
    ELSE Append(to_string(n \div 10), Digits[(n % 10) + 1])

\* from_u32 without NonZeroU16::new's test
from_u32_mut_zero(rem, num) ==
    IF ~DecLeq(num, U16_MAX) THEN PErr(InvalidPortNumber(num))
    ELSE POk(rem, DecValue(num))

\* non_zero_u16 from the u32 `digits.parse` gave, as canonical text
from_u32(rem, num) ==
    IF ~DecLeq(num, U16_MAX) THEN PErr(InvalidPortNumber(num))
    ELSE IF num = <<"0">> THEN PErr(InvalidPortNumber(num))
    ELSE POk(rem, DecValue(num))

\* non_zero_u16 from the n digits digit1 matched
from_digits(s, n) ==
    IF n = 0 THEN PErr(FieldError("InvalidPort"))
    ELSE IF ~DecLeq(Canonical(SubSeq(s, 1, n)), U32_MAX) THEN PErr(FieldError("InvalidPort"))
    ELSE from_u32(Rest(s, n), Canonical(SubSeq(s, 1, n)))

non_zero_u16(s) == from_digits(s, DigitPrefixLen(s))

\* `let (remaining, num) = r?; Ok((remaining, Some(num)))`
OkSomePort(res) ==
    CHOOSE out \in { IF r.ok THEN POk(r.rem, SomePort(r.val)) ELSE r : r \in {res} } : TRUE

port_number(s) ==
    IF wildcard(s).ok THEN POk(wildcard(s).rem, NonePort)
    ELSE IF s = <<>> \/ s[1] = DELIMITER_CHAR THEN PErr(FieldError("Empty"))
    ELSE OkSomePort(non_zero_u16(s))

-----------------------------------------------------------------------------
(* Row parser (parser/credential_pattern.rs).                              *)

line_ending_mut_lf(s) ==
    IF s # <<>> /\ s[1] = LF THEN POk(Rest(s, 1), <<LF>>)
    ELSE PErr(NomError("CrLf"))

\* nom::character::complete::line_ending
line_ending(s) ==
    IF s # <<>> /\ s[1] = LF THEN POk(Rest(s, 1), <<LF>>)
    ELSE IF Len(s) >= 2 /\ s[1] = CR /\ s[2] = LF THEN POk(Rest(s, 2), <<CR, LF>>)
    ELSE PErr(NomError("CrLf"))

\* what is left after opt(parser), r the parser's result on s
opt(r, s) == IF r.ok THEN r.rem ELSE s

field_delimiter(s) ==
    IF s # <<>> /\ s[1] = DELIMITER_CHAR THEN POk(Rest(s, 1), <<>>)
    ELSE PErr(FieldError("Undelimited"))

\* the tuple (field, field_delimiter) after its first parser returned f
after_field(f, delim) ==
    IF ~f.ok THEN f
    ELSE IF delim.ok THEN POk(delim.rem, f.val)
    ELSE delim
delimited(res) ==
    CHOOSE out \in { after_field(f, field_delimiter(f.rem)) : f \in {res} } : TRUE

\* the tuple (field, field_delimiter)
field_then_delimiter(s) == delimited(field(s))

\* the match of a column parser's result: Ok, Err(NomErr::Error(e)), or the
\* unreachable!() arm
Wrap(res, col) ==
    CHOOSE out \in
        { IF r.ok THEN r
          ELSE IF r.level = "Error" THEN PErr(ParsingError(col, r.err))
          ELSE [ok |-> FALSE, err |-> NoParsingError, level |-> "panic"] : r \in {res} } : TRUE

hostname_field(s) == Wrap(field_then_delimiter(s), "InvalidHostname")

\* the tuple (port_number, tag(DELIMITER)) after its first parser returned p
port_delimited(res) ==
    CHOOSE out \in
        { IF ~p.ok THEN p
          ELSE IF p.rem # <<>> /\ p.rem[1] = DELIMITER_CHAR THEN POk(Rest(p.rem, 1), p.val)
          ELSE PErr(PortError_from_error_kind("Tag")) : p \in {res} } : TRUE

port_field(s) == Wrap(port_delimited(port_number(s)), "InvalidPort")

database_field_mut_username(s) == Wrap(field_then_delimiter(s), "InvalidUsername")

database_field(s) == Wrap(field_then_delimiter(s), "InvalidDatabase")

username_field(s) == Wrap(field_then_delimiter(s), "InvalidUsername")

\* the tuple (required_field, opt(field_delimiter), opt(line_ending)) after
\* its first parser returned p, and the test of `delim`
password_delimited(res) ==
    CHOOSE out \in
        { IF ~p.ok THEN Wrap(p, "InvalidPassword")
          ELSE IF field_delimiter(p.rem).ok THEN PErr(UnrecognizedColumn)
          ELSE POk(opt(line_ending(p.rem), p.rem), p.val) : p \in {res} } : TRUE

password_field(s) == password_delimited(required_field(s))

\* the tuple of the five column parsers, one step for each parser's result
after_password(h, p, d, u, pw) ==
    IF ~pw.ok THEN pw ELSE POk(pw.rem, CredentialPattern(h, p, d, u, pw.val))

\* (each parser's result is bound once, as the value of a singleton's member)
after_username(h, p, d, u) ==
    IF ~u.ok THEN u
    ELSE CHOOSE r \in { after_password(h, p, d, u.val, pw) : pw \in {password_field(u.rem)} } : TRUE

after_database(h, p, d) ==
    IF ~d.ok THEN d
    ELSE CHOOSE r \in { after_username(h, p, d.val, u) : u \in {username_field(d.rem)} } : TRUE

after_port(h, p) ==
    IF ~p.ok THEN p
    ELSE CHOOSE r \in { after_database(h, p.val, d) : d \in {database_field(p.rem)} } : TRUE

after_hostname(h) ==
    IF ~h.ok THEN h
    ELSE CHOOSE r \in { after_port(h.val, p) : p \in {port_field(h.rem)} } : TRUE

credential_pattern(s) ==
    CHOOSE r \in { after_hostname(h) : h \in {hostname_field(s)} } : TRUE

-----------------------------------------------------------------------------
(* Ignored lines (parser/ignored.rs).                                      *)

\* `let (remaining, _) = r?; Ok((remaining, ()))`
OkUnit(r) == IF r.ok THEN POk(r.rem, <<>>) ELSE r

\* blank_line with an optional line ending, which matches the empty text
blank_line_mut_opt(s) == POk(opt(line_ending(s), s), <<>>)

blank_line(s) == OkUnit(line_ending(s))

\* many0(none_of("\r\n")): what is left after the longest run of such characters
RECURSIVE SkipToLineBreak(_)
SkipToLineBreak(s) ==
    IF s # <<>> /\ s[1] \notin {CR, LF} THEN SkipToLineBreak(Tail(s)) ELSE s

\* the comment's body and line end, after tag(COMMENT) left `body`
comment_body(body) == POk(opt(line_ending(SkipToLineBreak(body)), SkipToLineBreak(body)), <<>>)

comment(s) ==
    IF s # <<>> /\ s[1] = COMMENT_CHAR THEN comment_body(Rest(s, 1))
    ELSE PErr(NomError("Tag"))

ignored(s) == IF blank_line(s).ok THEN blank_line(s) ELSE comment(s)

-----------------------------------------------------------------------------
(* Document parser (parser/mod.rs) and encoder (pattern.rs, mod.rs).       *)

\* Result<PgPass, ParsingError>; "panic" is an unreachable!() arm taken
ParseOk(pats) == [tag |-> "Ok", patterns |-> pats, err |-> NoParsingError]
ParseErr(e) == [tag |-> "Err", patterns |-> <<>>, err |-> e]
Panicked == [tag |-> "panic", patterns |-> <<>>, err |-> NoParsingError]
Pending == [tag |-> "pending", patterns |-> <<>>, err |-> NoParsingError]

\* `credential_pattern(remaining).finish()?`
Finish(r) == IF r.level = "Error" THEN ParseErr(r.err) ELSE Panicked

\* the loop of pgpass from `rem` with `pats` pushed so far, and its else
\* branch once credential_pattern returned r
RECURSIVE pgpass_loop(_, _)
RECURSIVE pgpass_row(_, _)
pgpass_row(pats, r) ==
    IF r.ok THEN pgpass_loop(r.rem, Append(pats, r.val)) ELSE Finish(r)

pgpass_loop(rem, pats) ==
    IF rem = <<>> THEN ParseOk(pats)
    ELSE IF ignored(rem).ok THEN pgpass_loop(ignored(rem).rem, pats)
    ELSE pgpass_row(pats, credential_pattern(rem))

\* parser::pgpass, PgPass::from_str
pgpass(s) == pgpass_loop(s, <<>>)

\* escape_into without the push of ESCAPE_CHAR
escape_into_mut_raw(s, output) == output \o s

\* escape_into: the output with s appended, escaped
RECURSIVE escape_into(_, _)
escape_into(s, output) ==
    IF s = <<>> THEN output
    ELSE escape_into(Tail(s),
                     IF s[1] \in ESCAPABLE THEN output \o <<ESCAPE_CHAR, s[1]>>
                     ELSE Append(output, s[1]))

\* one iteration of encode_into's loop over the four leading fields
encode_field(f, output) ==
    Append(IF f.some THEN escape_into(f.v, output) ELSE Append(output, WILDCARD_CHAR),
           DELIMITER_CHAR)

\* CredentialPattern::encode_into
encode_into(self, output) ==
    LET port == IF self.port.some THEN Some(to_string(self.port.v)) ELSE None
        o1 == encode_field(self.hostname, output)
        o2 == encode_field(port, o1)
        o3 == encode_field(self.database, o2)
        o4 == encode_field(self.username, o3)
    IN Append(escape_into(self.password, o4), LF)

\* Write::write of the sink, a Cursor<Vec<u8>> as in the tests: the whole
\* buffer is accepted
write(f, buf) == f \o buf

\* PgPass::save_into
RECURSIVE save_into(_, _)
save_into(pats, f) ==
    IF pats = <<>> THEN f
    ELSE save_into(Tail(pats), write(f, encode_into(pats[1], <<>>)))

\* PgPass::read
read(f) == pgpass(f)

-----------------------------------------------------------------------------
(* Builder setters of CredentialPattern (pattern.rs).                      *)

valid_field_mut_lf(s) ==
    IF s = <<>> THEN "Empty"
    ELSE IF \E k \in 1..Len(s) : s[k] = LF THEN "ContainsLinebreak"
    ELSE "Ok"

\* valid_field: Ok(()) or the Invalidity
valid_field(s) ==
    IF s = <<>> THEN "Empty"
    ELSE IF \E k \in 1..Len(s) : s[k] \in {LF, CR} THEN "ContainsLinebreak"
    ELSE "Ok"

\* a CredentialPattern<HasPassword> under construction
Building(cred, tag) == [cred |-> cred, tag |-> tag]

\* CredentialPattern::default()
DefaultPattern == Building(CredentialPattern(None, NonePort, None, None, <<>>), "HasPasswordFalse")

\* InvalidField values, and Result<Self, InvalidField>
InvalidField(variant, invalidity) == [variant |-> variant, invalidity |-> invalidity]
NoInvalidField == InvalidField("-", "-")
Ok(self) == [ok |-> TRUE, val |-> self, err |-> NoInvalidField]
Err(e) == [ok |-> FALSE, val |-> DefaultPattern, err |-> e]

hostname(self, s) ==
    IF valid_field(s) # "Ok" THEN Err(InvalidField("InvalidHostname", valid_field(s)))
    ELSE Ok([self EXCEPT !.cred.hostname = Some(s)])

port(self, n) ==
    IF n # 0 THEN Ok([self EXCEPT !.cred.port = SomePort(n)])
    ELSE Err(InvalidField("InvalidPortNumber", "-"))

database(self, s) ==
    IF valid_field(s) # "Ok" THEN Err(InvalidField("InvalidHostname", valid_field(s)))
    ELSE Ok([self EXCEPT !.cred.database = Some(s)])

username(self, s) ==
    IF valid_field(s) # "Ok" THEN Err(InvalidField("InvalidHostname", valid_field(s)))
    ELSE Ok([self EXCEPT !.cred.username = Some(s)])

\* both impls of password: the result is a CredentialPattern<HasPasswordTrue>
password(self, s) ==
    IF valid_field(s) # "Ok" THEN Err(InvalidField("InvalidHostname", valid_field(s)))
    ELSE Ok(Building([self.cred EXCEPT !.password = s], "HasPasswordTrue"))

\* Result<CredentialQuery, InvalidField>
QueryOk(self) == [ok |-> TRUE, val |-> self, err |-> NoInvalidField]
QueryErr(e) == [ok |-> FALSE, val |-> DefaultQuery, err |-> e]

\* CredentialQuery::hostname
CredentialQuery_hostname(self, s) ==
    IF valid_field(s) # "Ok" THEN QueryErr(InvalidField("InvalidHostname", valid_field(s)))
    ELSE QueryOk([self EXCEPT !.hostname = Some(s)])

\* CredentialQuery::port
CredentialQuery_port(self, n) ==
    IF n # 0 THEN QueryOk([self EXCEPT !.port = SomePort(n)])
    ELSE QueryErr(InvalidField("InvalidPortNumber", "-"))

\* CredentialQuery::database
CredentialQuery_database(self, s) ==
    IF valid_field(s) # "Ok" THEN QueryErr(InvalidField("InvalidHostname", valid_field(s)))
    ELSE QueryOk([self EXCEPT !.database = Some(s)])

\* CredentialQuery::username
CredentialQuery_username(self, s) ==
    IF valid_field(s) # "Ok" THEN QueryErr(InvalidField("InvalidHostname", valid_field(s)))
    ELSE QueryOk([self EXCEPT !.username = Some(s)])

-----------------------------------------------------------------------------
(* Bounds and the inputs of the document operations.                       *)

MaxPatterns == 2

Str(c) == <<c>>

\* Every row of a document carries its own password, so that the row a
\* resolution came from can be read off the result.
PasswordAt(i) == Str(<<"p", "q", "r", "s">>[((i - 1) % 4) + 1])

\* the patterns that may be added as row i
PatternPool(i) ==
    { CredentialPattern(h, p, d, u, PasswordAt(i)) :
        h \in {None, Some(Str("h"))},
        p \in {NonePort, SomePort(1)},
        d \in {None, Some(Str("d"))},
        u \in {None, Some(Str("u"))} }

QueryPool ==
    { CredentialQuery(h, p, d, u) :
        h \in {None, Some(Str("h")), Some(Str("g"))},
        p \in {NonePort, SomePort(1), SomePort(DEFAULT_PORT)},
        d \in {None, Some(Str("d")), Some(Str("e"))},
        u \in {None, Some(Str("u")), Some(Str("v"))} }

-----------------------------------------------------------------------------
(* The document: add / with / clear / find.                                *)

ParserIdle == /\ input = <<>>
              /\ remaining = <<>>
              /\ result = Pending
              /\ pc = "idle"
              /\ sink = <<>>
              /\ reread = Pending
              /\ builder = DefaultPattern

Init ==
    /\ patterns = <<>>
    /\ query = DefaultQuery
    /\ found = NotCalled
    /\ ParserIdle

add_mut_prepend(cred) ==
    /\ found = NotCalled
    /\ Len(patterns) < MaxPatterns
    /\ patterns' = <<cred>> \o patterns
    /\ UNCHANGED <<query, found, input, remaining, result, pc, sink, reread>>

\* PgPass::add
add(cred) ==
    /\ found = NotCalled
    /\ Len(patterns) < MaxPatterns
    /\ patterns' = Append(patterns, cred)
    /\ UNCHANGED <<query, found, input, remaining, result, pc, sink, reread>>

\* PgPass::with
with(cred) == add(cred)

\* PgPass::clear
clear ==
    /\ found = NotCalled
    /\ patterns' = <<>>
    /\ UNCHANGED <<query, found, input, remaining, result, pc, sink, reread, builder>>

\* a call of PgPass::find (or QueryBuilder::find) with query q
Find(q) ==
    /\ found = NotCalled
    /\ query' = q
    /\ found' = find(patterns, q)
    /\ UNCHANGED <<patterns, input, remaining, result, pc, sink, reread, builder>>

\* the caller drops the returned value and its query
Drop ==
    /\ found # NotCalled
    /\ query' = DefaultQuery
    /\ found' = NotCalled
    /\ UNCHANGED <<patterns, input, remaining, result, pc, sink, reread, builder>>

Next ==
    \/ Drop
    \/ \E cred \in PatternPool(Len(patterns) + 1) : add(cred) /\ UNCHANGED builder
    \/ \E cred \in PatternPool(Len(patterns) + 1) : with(cred) /\ UNCHANGED builder
    \/ clear
    \/ \E q \in QueryPool : Find(q)

Spec == Init /\ [][Next]_vars

-----------------------------------------------------------------------------
(* Parsing a text and round-tripping the parsed document.                  *)

MaxTail == 2

Alphabet == {"a", "1", DELIMITER_CHAR, WILDCARD_CHAR, ESCAPE_CHAR, COMMENT_CHAR, CR, LF}

\* every string over Alphabet of at most n characters
RECURSIVE StringsUpTo(_)
StringsUpTo(n) ==
    IF n = 0 THEN {<<>>}
    ELSE LET shorter == StringsUpTo(n - 1)
         IN shorter \cup { Append(t, c) : t \in {x \in shorter : Len(x) = n - 1},
                                          c \in Alphabet }

GoodRow == <<"h", ":", "1", ":", "d", ":", "u", ":", "p">>

\* a good row up to the start of column k
ColumnStart(k) == SubSeq(GoodRow, 1, 2 * (k - 1))

\* what completes a row after column k, and a second row after the password
RowCompletion(k) ==
    IF k < 5 THEN Append(SubSeq(GoodRow, 2 * k, 9), LF)
    ELSE <<CR, LF, "*", ":", "*", ":", "*", ":", "*", ":", "q">>

Leads == { <<>>, Append(GoodRow, LF) }

\* texts beyond the reach of the short tails: long port numbers, comment
\* and blank lines, CR-LF line ends, escapes in every column
ExtraTexts ==
    { <<"h", ":", "0", ":", "d", ":", "u", ":", "p">>,
      <<"h", ":", "0", "1", ":", "d", ":", "u", ":", "p">>,
      <<"h", ":", "6", "5", "5", "3", "5", ":", "d", ":", "u", ":", "p">>,
      <<"h", ":", "6", "5", "5", "3", "6", ":", "d", ":", "u", ":", "p">>,
      <<"h", ":", "4", "2", "9", "4", "9", "6", "7", "2", "9", "5", ":", "d", ":", "u", ":", "p">>,
      <<"h", ":", "4", "2", "9", "4", "9", "6", "7", "2", "9", "6", ":", "d", ":", "u", ":", "p">>,
      <<"h", ":", "1", ":", "d", ":", "u", ":", "p", ":", "s", "i", "x">>,
      <<"h", ":", "1", ":", "d", ":", "u", ":", "p", CR, LF,
        "g", ":", "*", ":", "d", ":", "u", ":", "q", CR, LF>>,
      <<"#", " ", "c", LF, LF, "h", ":", "1", ":", "d", ":", "u", ":", "p", LF,
        "#", CR, LF, CR, LF, "#", " ", "d">>,
      <<"h", ":", "1", ":", "d", ":", "u", ":", "p", "*", ":", "1", ":", "d", ":", "u", ":", "q">>,
      <<"h", ESCAPE_CHAR, ":", ":", "1", ":", "d", ESCAPE_CHAR, "*", ":",
        ESCAPE_CHAR, ESCAPE_CHAR, "u", ":", ESCAPE_CHAR, "*", LF>>,
      <<"a", "#", ":", "*", ":", "#", ":", "#", "u", ":", "#", LF>> }

Texts ==
    { lead \o ColumnStart(k) \o tail \o completion :
        lead \in Leads, k \in 1..5, tail \in StringsUpTo(MaxTail),
        completion \in {<<>>} }
    \cup
    { lead \o ColumnStart(k) \o tail \o RowCompletion(k) :
        lead \in Leads, k \in 1..5, tail \in StringsUpTo(MaxTail) }
    \cup ExtraTexts

ParseInit ==
    /\ input \in Texts
    /\ remaining = input
    /\ patterns = <<>>
    /\ result = Pending
    /\ pc = "loop"
    /\ sink = <<>>
    /\ reread = Pending
    /\ query = DefaultQuery
    /\ found = NotCalled
    /\ builder = DefaultPattern

\* pgpass, a loop iteration that skips a blank line or a comment
SkipIgnored ==
    /\ pc = "loop"
    /\ remaining # <<>>
    /\ ignored(remaining).ok
    /\ remaining' = ignored(remaining).rem
    /\ UNCHANGED <<patterns, query, found, input, result, pc, sink, reread, builder>>

\* pgpass, a loop iteration that parses a row and pushes it
PushRow ==
    /\ pc = "loop"
    /\ remaining # <<>>
    /\ ~ignored(remaining).ok
    /\ \E r \in {credential_pattern(remaining)} :
          /\ r.ok
          /\ remaining' = r.rem
          /\ patterns' = Append(patterns, r.val)
    /\ UNCHANGED <<query, found, input, result, pc, sink, reread, builder>>

\* a loop iteration whose row fails, returning the rows pushed so far
FailRow_mut_partial ==
    /\ pc = "loop"
    /\ remaining # <<>>
    /\ ~ignored(remaining).ok
    /\ ~credential_pattern(remaining).ok
    /\ result' = ParseOk(patterns)
    /\ patterns' = <<>>
    /\ pc' = "done"
    /\ UNCHANGED <<query, found, input, remaining, sink, reread, builder>>

\* pgpass, a loop iteration whose row fails: `?` returns the error and the
\* rows pushed so far are dropped
FailRow ==
    /\ pc = "loop"
    /\ remaining # <<>>
    /\ ~ignored(remaining).ok
    /\ \E r \in {credential_pattern(remaining)} :
          /\ ~r.ok
          /\ result' = Finish(r)
    /\ patterns' = <<>>
    /\ pc' = "done"
    /\ UNCHANGED <<query, found, input, remaining, sink, reread, builder>>

\* pgpass, the loop's exit: Ok(PgPass { patterns })
ReturnOk ==
    /\ pc = "loop"
    /\ remaining = <<>>
    /\ result' = ParseOk(patterns)
    /\ patterns' = <<>>
    /\ pc' = "done"
    /\ UNCHANGED <<query, found, input, remaining, sink, reread, builder>>

\* PgPass::save_into of the document doc into an empty sink
SaveInto(doc) ==
    /\ sink' = save_into(doc, <<>>)
    /\ pc' = "saved"
    /\ UNCHANGED <<patterns, query, found, input, remaining, result, reread, builder>>

\* PgPass::read of what was saved
Read ==
    /\ pc = "saved"
    /\ reread' = read(sink)
    /\ pc' = "read"
    /\ UNCHANGED <<patterns, query, found, input, remaining, result, sink, builder>>

\* the parsed document is saved
SaveParsed ==
    /\ pc = "done"
    /\ result.tag = "Ok"
    /\ SaveInto(result.patterns)

ParseNext ==
    \/ SkipIgnored
    \/ PushRow
    \/ FailRow
    \/ ReturnOk
    \/ SaveParsed
    \/ Read

ParseSpec == ParseInit /\ [][ParseNext]_vars

\* the iterations of pgpass's loop and its return
ParseLoop ==
    \/ SkipIgnored
    \/ PushRow
    \/ FailRow
    \/ ReturnOk

\* pgpass is sequential code: while its loop can take a step, it takes one
ParseFairSpec == ParseSpec /\ WF_vars(ParseLoop)

-----------------------------------------------------------------------------
(* Building a document with the setters, saving it and reading it back.    *)

\* the arguments the setters are called with for the row at position i: the
\* first row takes every kind of string, the later rows a few
HostnameArgs(i) ==
    IF i = 1 THEN { <<>>, <<"a", LF>>, <<COMMENT_CHAR>>, <<WILDCARD_CHAR>>, <<"a", DELIMITER_CHAR>> }
    ELSE { <<COMMENT_CHAR, "a">>, <<"g">> }

PortArgs(i) == IF i = 1 THEN { 0, 1, 65535 } ELSE {}

DatabaseArgs(i) ==
    IF i = 1 THEN { <<>>, <<CR>>, <<ESCAPE_CHAR>>, <<"d">> } ELSE {}

UsernameArgs(i) ==
    IF i = 1 THEN { <<>>, <<"u", CR, LF>>, <<"u", WILDCARD_CHAR>>, <<COMMENT_CHAR>> } ELSE {}

PasswordArgs(i) ==
    IF i = 1 THEN { <<>>, <<LF>>, <<DELIMITER_CHAR, "p">>, <<COMMENT_CHAR>> }
    ELSE { <<"q", ESCAPE_CHAR>> }

BuildInit ==
    /\ patterns = <<>>
    /\ builder = DefaultPattern
    /\ result = Pending
    /\ pc = "build"
    /\ sink = <<>>
    /\ reread = Pending
    /\ input = <<>>
    /\ remaining = <<>>
    /\ query = DefaultQuery
    /\ found = NotCalled

\* a setter of the chain returned r: `?` goes on with the new value, or drops
\* the pattern and returns the error
Chain(r) ==
    /\ pc = "build"
    /\ Len(patterns) < MaxPatterns
    /\ result' = r
    /\ builder' = r.val
    /\ UNCHANGED <<patterns, query, found, input, remaining, pc, sink, reread>>

CallHostname(s) == Chain(hostname(builder, s))

CallPort(n) == Chain(port(builder, n))

CallDatabase(s) == Chain(database(builder, s))

CallUsername(s) == Chain(username(builder, s))

CallPassword(s) == Chain(password(builder, s))

\* PgPass::with of the built pattern, which its type lets in once it has a password
WithBuilt ==
    /\ pc = "build"
    /\ builder.tag = "HasPasswordTrue"
    /\ with(builder.cred)
    /\ builder' = DefaultPattern

\* the built document is saved
SaveBuilt ==
    /\ pc = "build"
    /\ builder = DefaultPattern
    /\ patterns # <<>>
    /\ SaveInto(patterns)

BuildNext ==
    \/ \E s \in HostnameArgs(Len(patterns) + 1) : CallHostname(s)
    \/ \E n \in PortArgs(Len(patterns) + 1) : CallPort(n)
    \/ \E s \in DatabaseArgs(Len(patterns) + 1) : CallDatabase(s)
    \/ \E s \in UsernameArgs(Len(patterns) + 1) : CallUsername(s)
    \/ \E s \in PasswordArgs(Len(patterns) + 1) : CallPassword(s)
    \/ WithBuilt
    \/ SaveBuilt
    \/ Read

BuildSpec == BuildInit /\ [][BuildNext]_vars

-----------------------------------------------------------------------------
(* The setters of a pattern and of a query builder, called one by one.     *)

QueryStringArgs == { <<>>, <<"g">>, <<"g", LF>>, <<CR>>, <<COMMENT_CHAR, WILDCARD_CHAR>> }

QueryPortArgs == { 0, 1, 65535 }

\* the caller holds CredentialPattern::default() or PgPass::query()
SetterInit ==
    /\ patterns = <<>>
    /\ builder = DefaultPattern
    /\ result = Pending
    /\ pc \in {"build", "query"}
    /\ sink = <<>>
    /\ reread = Pending
    /\ input = <<>>
    /\ remaining = <<>>
    /\ query = DefaultQuery
    /\ found = NotCalled

\* a setter of QueryBuilder: `self.query = self.query.setter(arg)?; Ok(self)`,
\* r the result of the CredentialQuery setter
QueryChain(r) ==
    /\ pc = "query"
    /\ result' = r
    /\ query' = r.val
    /\ UNCHANGED <<patterns, found, input, remaining, pc, sink, reread, builder>>

QueryBuilderHostname(s) == QueryChain(CredentialQuery_hostname(query, s))

QueryBuilderPort(n) == QueryChain(CredentialQuery_port(query, n))

QueryBuilderDatabase(s) == QueryChain(CredentialQuery_database(query, s))

QueryBuilderUsername(s) == QueryChain(CredentialQuery_username(query, s))

SetterNext ==
    \/ \E s \in HostnameArgs(1) : CallHostname(s)
    \/ \E n \in PortArgs(1) : CallPort(n)
    \/ \E s \in DatabaseArgs(1) : CallDatabase(s)
    \/ \E s \in UsernameArgs(1) : CallUsername(s)
    \/ \E s \in PasswordArgs(1) : CallPassword(s)
    \/ \E s \in QueryStringArgs : QueryBuilderHostname(s)
    \/ \E n \in QueryPortArgs : QueryBuilderPort(n)
    \/ \E s \in QueryStringArgs : QueryBuilderDatabase(s)
    \/ \E s \in QueryStringArgs : QueryBuilderUsername(s)

SetterSpec == SetterInit /\ [][SetterNext]_vars

-----------------------------------------------------------------------------
(* One complete pattern, asked whether it is exact and converted.          *)

\* the complete patterns: every field wildcard or one of two values
CompletePatterns ==
    { CredentialPattern(h, p, d, u, pw) :
        h \in {None, Some(Str("h")), Some(Str("g"))},
        p \in {NonePort, SomePort(1), SomePort(DEFAULT_PORT), SomePort(65535)},
        d \in {None, Some(Str("d")), Some(Str("e"))},
        u \in {None, Some(Str("u")), Some(Str("v"))},
        pw \in {Str("p"), <<"q", "r">>} }

\* the bool that exact returned
Bool(b) == [tag |-> "bool", val |-> b]

ConvertInit ==
    /\ \E p \in CompletePatterns : patterns = <<p>>
    /\ query = DefaultQuery
    /\ found = NotCalled
    /\ input = <<>>
    /\ remaining = <<>>
    /\ result = Pending
    /\ pc = "pattern"
    /\ sink = <<>>
    /\ reread = Pending
    /\ builder = DefaultPattern

\* a call of pattern.exact()
Exact ==
    /\ result = Pending
    /\ result' = Bool(exact(patterns[1]))
    /\ UNCHANGED <<patterns, query, found, input, remaining, pc, sink, reread, builder>>

\* Credentials::try_from(pattern)
TryFrom ==
    /\ found = NotCalled
    /\ found' = try_from(patterns[1])
    /\ UNCHANGED <<patterns, query, input, remaining, result, pc, sink, reread, builder>>

\* <str as Debug>::fmt: the text between double quotes, its quotes,
\* backslashes and line breaks escaped
RECURSIVE escape_debug(_)
escape_debug(s) ==
    IF s = <<>> THEN <<>>
    ELSE (CASE s[1] = "\"" -> <<"\\", "\"">>
            [] s[1] = "\\" -> <<"\\", "\\">>
            [] s[1] = LF -> <<"\\", "n">>
            [] s[1] = CR -> <<"\\", "r">>
            [] OTHER -> <<s[1]>>) \o escape_debug(Tail(s))

str_fmt(s) == <<"\"">> \o escape_debug(s) \o <<"\"">>

\* DebugStruct::field, the first field after " { " and the others after ", "
debug_field(out, first, name, value) ==
    out \o (IF first THEN <<" { ">> ELSE <<", ">>) \o <<name, ": ">> \o value

\* DebugStruct::finish
debug_finish(out) == out \o <<" }">>

\* the text that stands for the password
Censored == <<"[", " ", "C", "e", "n", "s", "o", "r", "e", "d", " ", "]">>

\* Debug as #[derive(Debug)] would write it for Credentials
Credentials_fmt_mut_derived(self) ==
    debug_finish(
      debug_field(
        debug_field(
          debug_field(
            debug_field(
              debug_field(<<"Credentials">>, TRUE, "hostname", str_fmt(self.hostname)),
              FALSE, "port", to_string(self.port)),
            FALSE, "database", str_fmt(self.database)),
          FALSE, "username", str_fmt(self.username)),
        FALSE, "password", str_fmt(self.password)))

\* <Credentials as Debug>::fmt
Credentials_fmt(self) ==
    debug_finish(
      debug_field(
        debug_field(
          debug_field(
            debug_field(
              debug_field(<<"Credentials">>, TRUE, "hostname", str_fmt(self.hostname)),
              FALSE, "port", to_string(self.port)),
            FALSE, "database", str_fmt(self.database)),
          FALSE, "username", str_fmt(self.username)),
        FALSE, "password", str_fmt(Censored)))

\* the converted Credentials are formatted with {:?}
DebugCredentials ==
    /\ found.tag = "Some"
    /\ pc = "pattern"
    /\ sink' = Credentials_fmt(found.creds)
    /\ pc' = "Credentials"
    /\ UNCHANGED <<patterns, query, found, input, remaining, result, reread, builder>>

\* <Option<String> as Debug>::fmt
Option_fmt(o) ==
    IF o.some THEN <<"Some(">> \o str_fmt(o.v) \o <<")">> ELSE <<"None">>

\* <Option<NonZeroU16> as Debug>::fmt
OptionPort_fmt(o) ==
    IF o.some THEN <<"Some(">> \o to_string(o.v) \o <<")">> ELSE <<"None">>

\* #[derive(Debug)] of CredentialPattern: every field in declaration order
CredentialPattern_fmt(self) ==
    debug_finish(
      debug_field(
        debug_field(
          debug_field(
            debug_field(
              debug_field(
                debug_field(<<"CredentialPattern">>, TRUE, "hostname", Option_fmt(self.hostname)),
                FALSE, "port", OptionPort_fmt(self.port)),
              FALSE, "database", Option_fmt(self.database)),
            FALSE, "username", Option_fmt(self.username)),
          FALSE, "password", str_fmt(self.password)),
        FALSE, "_tag", <<"PhantomData<HasPasswordTrue>">>))

\* <Vec<CredentialPattern> as Debug>::fmt: the entries between brackets
RECURSIVE Vec_entries(_)
Vec_entries(v) ==
    IF v = <<>> THEN <<>>
    ELSE CredentialPattern_fmt(v[1])
         \o (IF Len(v) > 1 THEN <<", ">> ELSE <<>>) \o Vec_entries(Tail(v))

Vec_fmt(v) == <<"[">> \o Vec_entries(v) \o <<"]">>

\* #[derive(Debug)] of PgPass
PgPass_fmt(pats) ==
    debug_finish(debug_field(<<"PgPass">>, TRUE, "patterns", Vec_fmt(pats)))

\* the pattern is formatted with {:?}
DebugPattern ==
    /\ pc = "pattern"
    /\ sink' = CredentialPattern_fmt(patterns[1])
    /\ pc' = "CredentialPattern"
    /\ UNCHANGED <<patterns, query, found, input, remaining, result, reread, builder>>

\* the document that holds the pattern is formatted with {:?}
DebugPgPass ==
    /\ pc = "pattern"
    /\ sink' = PgPass_fmt(patterns)
    /\ pc' = "PgPass"
    /\ UNCHANGED <<patterns, query, found, input, remaining, result, reread, builder>>

ConvertNext ==
    \/ Exact
    \/ TryFrom
    \/ DebugCredentials
    \/ DebugPattern
    \/ DebugPgPass

ConvertSpec == ConvertInit /\ [][ConvertNext]_vars

-----------------------------------------------------------------------------
(* Saving a document into a sink that may accept a part of what it is      *)
(* offered.                                                                *)

\* Write::write on any sink: Ok(n), the first n bytes of buf accepted
write_accepting(f, buf, n) == f \o SubSeq(buf, 1, n)

\* the counts a write of len bytes may return: all of them, all but one, none
AcceptedCounts(len) == {len, len - 1, 0} \cap 0..len

\* the counts the write of the next row may return
RowCounts(rows) ==
    IF rows = <<>> THEN {} ELSE AcceptedCounts(Len(encode_into(rows[1], <<>>)))

\* the documents that are saved
Documents ==
    { <<>> } \cup { <<a>> : a \in PatternPool(1) }
    \cup { <<a, b>> : a \in {CredentialPattern(Some(Str("h")), SomePort(1), None, None, PasswordAt(1))},
                      b \in PatternPool(2) }

\* save_into is called: `remaining` holds the rows the iterator has yet to yield
SaveInit ==
    /\ patterns \in Documents
    /\ remaining = patterns
    /\ sink = <<>>
    /\ pc = "save"
    /\ result = Pending
    /\ reread = Pending
    /\ input = <<>>
    /\ query = DefaultQuery
    /\ found = NotCalled
    /\ builder = DefaultPattern

\* an iteration of save_into's loop: the row is encoded, write returns Ok(n)
\* and n is dropped
WriteRow(n) ==
    /\ pc = "save"
    /\ remaining # <<>>
    /\ sink' = write_accepting(sink, encode_into(remaining[1], <<>>), n)
    /\ remaining' = Tail(remaining)
    /\ UNCHANGED <<patterns, query, found, input, result, pc, reread, builder>>

\* write returns Err(e), which `?` returns
WriteFails ==
    /\ pc = "save"
    /\ remaining # <<>>
    /\ pc' = "failed"
    /\ UNCHANGED <<patterns, query, found, input, remaining, result, sink, reread, builder>>

\* save_into returns Ok(())
SaveReturns ==
    /\ pc = "save"
    /\ remaining = <<>>
    /\ pc' = "saved"
    /\ UNCHANGED <<patterns, query, found, input, remaining, result, sink, reread, builder>>

SaveNext ==
    \/ \E n \in RowCounts(remaining) : WriteRow(n)
    \/ WriteFails
    \/ SaveReturns

SaveSpec == SaveInit /\ [][SaveNext]_vars

-----------------------------------------------------------------------------
(* Parsing one column.                                                     *)

MaxFieldLen == 3

FieldAlphabet == Alphabet \cup {"0"}

\* every string over FieldAlphabet of at most n characters
RECURSIVE FieldTexts(_)
FieldTexts(n) ==
    IF n = 0 THEN {<<>>}
    ELSE LET shorter == FieldTexts(n - 1)
         IN shorter \cup { Append(t, c) : t \in {x \in shorter : Len(x) = n - 1},
                                          c \in FieldAlphabet }

\* decimal texts at the bounds of the port: zero, u16::MAX, u32::MAX and beyond
PortNumbers ==
    { <<"0">>, <<"1">>,
      <<"6", "5", "5", "3", "5">>, <<"6", "5", "5", "3", "6">>, <<"9", "9", "9", "9", "9">>,
      <<"4", "2", "9", "4", "9", "6", "7", "2", "9", "5">>,
      <<"4", "2", "9", "4", "9", "6", "7", "2", "9", "6">>,
      <<"9", "9", "9", "9", "9", "9", "9", "9", "9", "9", "9">> }

\* the port numbers, after leading zeros and before what may follow the column
PortTexts ==
    { zeros \o num \o after :
        zeros \in { <<>>, <<"0">>, <<"0", "0">> },
        num \in PortNumbers,
        after \in { <<>>, <<DELIMITER_CHAR>>, <<DELIMITER_CHAR, "d">>, <<"a">> } }

FieldInit ==
    /\ input \in FieldTexts(MaxFieldLen) \cup PortTexts
    /\ remaining = input
    /\ result = Pending
    /\ pc = "column"
    /\ patterns = <<>>
    /\ builder = DefaultPattern
    /\ sink = <<>>
    /\ reread = Pending
    /\ query = DefaultQuery
    /\ found = NotCalled

\* a column parser returned r
Column(name, r) ==
    /\ pc = "column"
    /\ result' = r
    /\ pc' = name
    /\ UNCHANGED <<patterns, query, found, input, remaining, sink, reread, builder>>

ParseField == Column("field", field(input))

ParseRequiredField == Column("required_field", required_field(input))

ParsePortNumber == Column("port_number", port_number(input))

FieldNext ==
    \/ ParseField
    \/ ParseRequiredField
    \/ ParsePortNumber

FieldSpec == FieldInit /\ [][FieldNext]_vars

-----------------------------------------------------------------------------
(* A parsed document that is added to and cleared.                         *)

\* <PgPass as FromStr>::from_str
from_str(s) == pgpass(s)

\* texts of no row, one row, two rows on two lines, rows between comments
\* and blank lines, two rows on one line, and a malformed second row
DocTexts ==
    { <<>>,
      GoodRow,
      Append(GoodRow, LF) \o <<"*", ":", "*", ":", "*", ":", "*", ":", "q", LF>>,
      <<"#", " ", "c", LF, LF>> \o Append(GoodRow, LF) \o <<"#", CR, LF, CR, LF, "#", " ", "d">>,
      <<"#", LF>> \o Append(GoodRow, LF) \o <<LF>>
          \o <<"g", ":", "*", ":", "d", ":", "u", ":", "q", CR, LF>>,
      <<"h", ":", "1", ":", "d", ":", "u", ":", "p", "*", ":", "1", ":", "d", ":", "u", ":", "q">>,
      Append(GoodRow, LF) \o <<"h", ":", ":">> }

DocInit ==
    /\ input \in DocTexts
    /\ remaining = <<>>
    /\ patterns = <<>>
    /\ result = Pending
    /\ pc = "text"
    /\ sink = <<>>
    /\ reread = Pending
    /\ query = DefaultQuery
    /\ found = NotCalled
    /\ builder = DefaultPattern

\* from_str returns Ok(PgPass { patterns })
FromStr ==
    /\ pc = "text"
    /\ from_str(input).tag = "Ok"
    /\ result' = from_str(input)
    /\ patterns' = from_str(input).patterns
    /\ pc' = "document"
    /\ UNCHANGED <<query, found, input, remaining, sink, reread, builder>>

\* from_str returns Err(ParsingError): there is no document
FromStrFails ==
    /\ pc = "text"
    /\ from_str(input).tag # "Ok"
    /\ result' = from_str(input)
    /\ pc' = "failed"
    /\ UNCHANGED <<patterns, query, found, input, remaining, sink, reread, builder>>

DocNext ==
    \/ FromStr
    \/ FromStrFails
    \/ \E cred \in PatternPool(Len(patterns) + 1) :
          pc = "document" /\ add(cred) /\ UNCHANGED builder
    \/ \E cred \in PatternPool(Len(patterns) + 1) :
          pc = "document" /\ with(cred) /\ UNCHANGED builder
    \/ pc = "document" /\ clear

DocSpec == DocInit /\ [][DocNext]_vars

-----------------------------------------------------------------------------
(* Resolution claims (checked under Spec).                                 *)

StringFields == {"hostname", "database", "username"}

\* the compatibility relation as the documentation states it
FieldCompatible(q, p) == ~q.some \/ ~p.some \/ q.v = p.v

Compatible(q, row) ==
    /\ FieldCompatible(q.hostname, row.hostname)
    /\ FieldCompatible(q.port, row.port)
    /\ FieldCompatible(q.database, row.database)
    /\ FieldCompatible(q.username, row.username)

CompatibleRows == {i \in 1..Len(patterns) : Compatible(query, patterns[i])}

FirstCompatible == CHOOSE i \in CompatibleRows : \A j \in CompatibleRows : i <= j

MissingIn(q, row, f) == ~q[f].some /\ ~row[f].some

MergeIncomplete(q, row) == \E f \in StringFields : MissingIn(q, row, f)

FirstMissing(q, row) ==
    IF MissingIn(q, row, "hostname") THEN "MissingHostname"
    ELSE IF MissingIn(q, row, "database") THEN "MissingDatabase"
    ELSE "MissingUsername"

Called == found # NotCalled

\* C1: find resolves against the lowest-index compatible row and never a
\* later one: if that row's merge is incomplete the result is its error,
\* otherwise the result carries that row's password.
C1_FirstCompatibleRowWins ==
    (Called /\ CompatibleRows # {}) =>
        LET row == patterns[FirstCompatible] IN
        IF MergeIncomplete(query, row)
        THEN found.tag = "Err"
        ELSE found.tag = "Some" /\ found.creds.password = row.password

\* C1 witness: an error was returned although a later compatible row
\* would have produced complete credentials.
C1_Witness ==
    /\ found.tag = "Err"
    /\ \E j \in CompatibleRows :
          j > FirstCompatible /\ ~MergeIncomplete(query, patterns[j])

\* C2: the loop skips a row exactly when the row is not compatible, and
\* find returns Ok(None) exactly when no row is compatible.
C2_NoneIffNoCompatibleRow ==
    Called =>
        /\ \A i \in 1..Len(patterns) :
              Skips(query, patterns[i]) <=> ~Compatible(query, patterns[i])
        /\ (found.tag = "None") <=> (CompatibleRows = {})
        /\ (CompatibleRows = {}) => found.tag # "Err"

\* C2 witness: Ok(None) on a document of two rows whose only difference
\* from the query is the port of one and the username of the other.
C2_Witness ==
    /\ found.tag = "None"
    /\ Len(patterns) >= 2
    /\ \E i, j \in 1..Len(patterns) :
          /\ Differs(query.port, patterns[i].port)
          /\ ~Differs(query.username, patterns[i].username)
          /\ Differs(query.username, patterns[j].username)
          /\ ~Differs(query.port, patterns[j].port)

\* C3: in Some(credentials) each of hostname, port, database, username is
\* the query's concrete value if it has one, else the matched row's concrete
\* value; the password is the matched row's.
C3_MergePrefersQuery ==
    (found.tag = "Some") =>
        /\ CompatibleRows # {}
        /\ LET row == patterns[FirstCompatible]
               c == found.creds
           IN /\ \A f \in StringFields :
                    IF query[f].some THEN c[f] = query[f].v
                    ELSE row[f].some /\ c[f] = row[f].v
              /\ query.port.some => c.port = query.port.v
              /\ (~query.port.some /\ row.port.some) => c.port = row.port.v
              /\ c.password = row.password

\* C3 witness: a result that mixes a query value (hostname, wildcard in the
\* row) with row values (database), taken from the second row.
C3_Witness ==
    /\ found.tag = "Some"
    /\ FirstCompatible = 2
    /\ query.hostname.some /\ ~patterns[2].hostname.some
    /\ ~query.database.some /\ patterns[2].database.some
    /\ found.creds.password = patterns[2].password

\* C4: the resolved port is 5432 if and only if neither side has a port or
\* the concrete port is 5432; a concrete port on either side is the
\* resolved port; a port missing on both sides never produces an error.
C4_DefaultPortOnlyWhenBothWildcard ==
    (Called /\ CompatibleRows # {}) =>
        LET row == patterns[FirstCompatible]
            c == found.creds
            concrete == Or(query.port, row.port)
        IN /\ (found.tag = "Some") =>
                /\ (~query.port.some /\ ~row.port.some) => c.port = DEFAULT_PORT
                /\ concrete.some => c.port = concrete.v
                /\ (c.port = DEFAULT_PORT) <=>
                      (~concrete.some \/ concrete.v = DEFAULT_PORT)
           /\ (found.tag = "Err") => MergeIncomplete(query, row)
           /\ (~MergeIncomplete(query, row)) => found.tag = "Some"

\* C4 witness: the default port substituted for a port missing on both sides.
C4_Witness ==
    /\ found.tag = "Some"
    /\ ~query.port.some
    /\ ~patterns[FirstCompatible].port.some
    /\ found.creds.port = DEFAULT_PORT

\* C5: find returns Err exactly when a compatible row exists and the first
\* one leaves hostname, database or username wildcard on both sides; the
\* error names the first such field in the order hostname, database, username.
C5_IncompleteNamesFirstMissing ==
    Called =>
        /\ (found.tag = "Err") <=>
              (CompatibleRows # {}
                 /\ MergeIncomplete(query, patterns[FirstCompatible]))
        /\ (found.tag = "Err") =>
              found.err = FirstMissing(query, patterns[FirstCompatible])

\* C5 witness: hostname and database both missing, hostname named.
C5_Witness ==
    /\ found.tag = "Err"
    /\ found.err = "MissingHostname"
    /\ MissingIn(query, patterns[FirstCompatible], "database")

-----------------------------------------------------------------------------
(* Parser and encoder claims.                                              *)

\* C6: for every document a successful parse produced, parsing the encoder's
\* output for it succeeds and yields an equal document: same rows, same
\* order, same wildcard positions, same passwords (checked under ParseSpec).
C6_ParseInvertsEncode ==
    (pc = "read" /\ result.tag = "Ok") => reread = result

\* C6 witness: a parsed document of several rows, one with a wildcard
\* hostname and one whose password needs escaping, was saved and read back.
C6_Witness ==
    /\ pc = "read"
    /\ result.tag = "Ok"
    /\ Len(result.patterns) >= 2
    /\ \E k \in 1..Len(result.patterns) : ~result.patterns[k].hostname.some
    /\ \E k \in 1..Len(result.patterns) :
          \E j \in 1..Len(result.patterns[k].password) :
              result.patterns[k].password[j] \in ESCAPABLE

\* C7: a document whose rows were built with the setters is read back from
\* what save_into wrote as a document equal to the original (checked under
\* BuildSpec, where every row is built by the setters).
C7_BuiltDocumentRoundTrips ==
    pc = "read" => reread = ParseOk(patterns)

NamedColumns ==
    { "InvalidHostname", "InvalidPort", "InvalidDatabase", "InvalidUsername",
      "InvalidPassword", "UnrecognizedColumn" }

NamedKinds ==
    { "Empty", "InvalidEscape", "InvalidEscapeNoChar", "Required", "Undelimited",
      "InvalidPort", "InvalidPortNumber" }

\* r is a document or one of the named errors
DocumentOrNamedError(r) ==
    \/ r.tag = "Ok"
    \/ /\ r.tag = "Err"
       /\ r.err.col \in NamedColumns
       /\ r.err.col # "UnrecognizedColumn" => r.err.e.kind \in NamedKinds

\* C8: for every input, parse returns a document or one of the named errors;
\* it never takes an unreachable!() arm and never returns an Unknown error of
\* any of the three error types (checked under ParseSpec).
C8_DocumentOrNamedError ==
    /\ pc \in {"done", "saved", "read"} => DocumentOrNamedError(result)
    /\ pc = "read" => DocumentOrNamedError(reread)

\* C8 witness: a parse failed on an escape sequence, where nom's own error
\* kind is replaced by a named one.
C8_Witness ==
    /\ pc = "done"
    /\ result.tag = "Err"
    /\ result.err.e.kind = "InvalidEscape"

\* the length of the first line of a non-empty text, its line feed included
LineLen(s) ==
    IF \E k \in 1..Len(s) : s[k] = LF
    THEN CHOOSE k \in 1..Len(s) : s[k] = LF /\ \A j \in 1..(k - 1) : s[j] # LF
    ELSE Len(s)

\* the lines of a text, each with its line feed
RECURSIVE Lines(_)
Lines(s) ==
    IF s = <<>> THEN <<>>
    ELSE <<SubSeq(s, 1, LineLen(s))>> \o Lines(Rest(s, LineLen(s)))

\* the lines that hold a malformed row: parsed alone, they fail
MalformedLines(text) ==
    { k \in 1..Len(Lines(text)) : pgpass(Lines(text)[k]).tag = "Err" }

FirstMalformed(text) ==
    CHOOSE k \in MalformedLines(text) : \A j \in MalformedLines(text) : k <= j

\* the number of characters of the lines after line k
RECURSIVE LengthAfter(_, _)
LengthAfter(ls, k) ==
    IF k >= Len(ls) THEN 0 ELSE Len(ls[k + 1]) + LengthAfter(ls, k + 1)

\* C9: if a row of the input is malformed, parse returns an error and no
\* document; the rows parsed before it are dropped, the lines after it are
\* left unread, and the error is the one the first malformed row raises
\* (checked under ParseSpec).
C9_FirstMalformedRowFails ==
    (pc = "done" /\ MalformedLines(input) # {}) =>
        /\ result = ParseErr(pgpass(Lines(input)[FirstMalformed(input)]).err)
        /\ patterns = <<>>
        /\ Len(remaining) >= LengthAfter(Lines(input), FirstMalformed(input))

\* C9 witness: the second line is the first malformed one, after a row that
\* parsed and before a line that holds a well-formed row.
C9_Witness ==
    /\ pc = "done"
    /\ result.tag = "Err"
    /\ MalformedLines(input) # {}
    /\ FirstMalformed(input) = 2
    /\ pgpass(Lines(input)[1]) = ParseOk(<<CredentialPattern(Some(<<"h">>), SomePort(1),
                                             Some(<<"d">>), Some(<<"u">>), <<"p">>)>>)
    /\ \E k \in 3..Len(Lines(input)) :
          /\ pgpass(Lines(input)[k]).tag = "Ok"
          /\ pgpass(Lines(input)[k]).patterns # <<>>

\* the characters that end a field's value
FieldEnd == {DELIMITER_CHAR, WILDCARD_CHAR, CR, LF}

\* what the claim says decoding gives from s on, with acc decoded so far;
\* it says nothing of an escape character that ends the input ("open")
RECURSIVE Decoded(_, _)
Decoded(s, acc) ==
    IF s = <<>> THEN POk(<<>>, acc)
    ELSE IF s[1] = ESCAPE_CHAR
    THEN IF Len(s) = 1 THEN [ok |-> FALSE, err |-> NoFieldError, level |-> "open"]
         ELSE IF s[2] \in {ESCAPE_CHAR, DELIMITER_CHAR, WILDCARD_CHAR}
         THEN Decoded(Rest(s, 2), Append(acc, s[2]))
         ELSE PErr(InvalidEscape(s[2]))
    ELSE IF s[1] \in FieldEnd THEN POk(s, acc)
    ELSE Decoded(Tail(s), Append(acc, s[1]))

\* the result of `field` that goes with a decoding
FieldOf(d) == IF d.ok THEN POk(d.rem, Some(d.val)) ELSE d

\* C10: in a field's value the escape character followed by the escape
\* character, the delimiter or the wildcard gives that one literal character
\* and decoding goes on; followed by any other character c it fails with
\* InvalidEscape(c) and no value is returned (checked under FieldSpec).
C10_EscapeDecoding ==
    (/\ pc = "field"
     /\ input # <<>>
     /\ input[1] \notin FieldEnd
     /\ Decoded(input, <<>>).ok \/ Decoded(input, <<>>).level # "open") =>
        result = FieldOf(Decoded(input, <<>>))

\* C10 witness: an escaped delimiter was decoded and decoding went on.
C10_Witness ==
    /\ pc = "field"
    /\ input = <<ESCAPE_CHAR, DELIMITER_CHAR, "a">>
    /\ result = POk(<<>>, Some(<<DELIMITER_CHAR, "a">>))

-----------------------------------------------------------------------------
(* Port and column claims.                                                 *)

\* the characters that end a column
ColumnEnd == {DELIMITER_CHAR, CR, LF}

\* the text of the column that starts s, up to the delimiter or the line's end
RECURSIVE ColumnText(_)
ColumnText(s) ==
    IF s = <<>> \/ s[1] \in ColumnEnd THEN <<>>
    ELSE <<s[1]>> \o ColumnText(Tail(s))

AllDigits(col) == col # <<>> /\ \A k \in 1..Len(col) : IsDigit(col[k])

\* what port_number must return for a column of digits, by the value num of
\* the digits: the bounds are those of the port alone
PortOfDigits(rem, num) ==
    IF num = <<"0">> \/ ~DecLeq(num, U16_MAX) THEN PErr(InvalidPortNumber(num))
    ELSE POk(rem, SomePort(DecValue(num)))

\* the same, with the digits beyond u32::MAX failing as unparsable
PortOfDigitsU32(rem, num) ==
    IF ~DecLeq(num, U32_MAX) THEN PErr(FieldError("InvalidPort"))
    ELSE PortOfDigits(rem, num)

\* C11 as stated: a port column of digits whose value is 0 or above 65535,
\* for any number of digits, fails with InvalidPortNumber carrying the value;
\* a value in 1..=65535 gives that port.
C11_PortNumberBounds ==
    (pc = "port_number" /\ AllDigits(ColumnText(input))) =>
        result = PortOfDigits(Rest(input, Len(ColumnText(input))),
                              Canonical(ColumnText(input)))

\* C11 amended: a port column of digits whose value is 0 or in
\* 65536..=4294967295 fails with InvalidPortNumber carrying the value, a value
\* above 4294967295 fails with InvalidPort, and a value in 1..=65535 gives
\* that port (checked under FieldSpec).
C11_PortNumberBoundsU32 ==
    (pc = "port_number" /\ AllDigits(ColumnText(input))) =>
        result = PortOfDigitsU32(Rest(input, Len(ColumnText(input))),
                                 Canonical(ColumnText(input)))

\* C11 witness: 65536 before a delimiter was rejected with its value.
C11_Witness ==
    /\ pc = "port_number"
    /\ input = <<"6", "5", "5", "3", "6", DELIMITER_CHAR>>
    /\ result = PErr(InvalidPortNumber(<<"6", "5", "5", "3", "6">>))

\* the text of the column after the hostname of a row that starts s
PortColumn(s) == ColumnText(hostname_field(s).rem)

\* C12: a row whose port column is non-empty, is not the wildcard token and
\* holds a character that is no digit, first or after digits, fails with
\* InvalidPort(PortError::InvalidPort) (stated of the first row of the input,
\* under ParseSpec).
C12_NonDigitPortIsInvalidPort ==
    (/\ pc = "done"
     /\ ~ignored(input).ok
     /\ hostname_field(input).ok
     /\ PortColumn(input) # <<>>
     /\ PortColumn(input) # <<WILDCARD_CHAR>>
     /\ ~AllDigits(PortColumn(input))) =>
        result = ParseErr(ParsingError("InvalidPort", FieldError("InvalidPort")))

\* the next column parser on what r left, r the result of the parsers before
Then(r, parser(_)) == IF r.ok THEN parser(r.rem) ELSE r

\* the first four columns of the row that starts s
FourColumns(s) ==
    Then(Then(Then(hostname_field(s), port_field), database_field), username_field)

\* the raw text of the password column of the first row of the input
PasswordColumn == ColumnText(FourColumns(input).rem)

\* C13: a row whose password column is the wildcard token fails with
\* InvalidPassword(Required), and no row of a parsed document has an empty
\* password (stated of the first row of the input, under ParseSpec).
C13_PasswordRequired ==
    /\ (/\ pc = "done"
        /\ ~ignored(input).ok
        /\ FourColumns(input).ok
        /\ PasswordColumn = <<WILDCARD_CHAR>>) =>
           result = ParseErr(ParsingError("InvalidPassword", FieldError("Required")))
    /\ (pc = "done" /\ result.tag = "Ok") =>
           \A k \in 1..Len(result.patterns) : result.patterns[k].password # <<>>

\* C13 witness: four good columns and a wildcard password were rejected.
C13_Witness ==
    /\ pc = "done"
    /\ input = ColumnStart(5) \o <<WILDCARD_CHAR>>
    /\ result = ParseErr(ParsingError("InvalidPassword", FieldError("Required")))

\* the number of delimiters of a text that no escape character precedes
RECURSIVE Delimiters(_)
Delimiters(s) ==
    IF s = <<>> THEN 0
    ELSE IF s[1] = ESCAPE_CHAR THEN Delimiters(Rest(s, IF Len(s) >= 2 THEN 2 ELSE 1))
    ELSE (IF s[1] = DELIMITER_CHAR THEN 1 ELSE 0) + Delimiters(Tail(s))

\* the lines of the input that are no comments
RowLines == { k \in 1..Len(Lines(input)) : Lines(input)[k][1] # COMMENT_CHAR }

\* C14: a line whose first five columns are valid and whose password column
\* is followed by a delimiter fails with UnrecognizedColumn (stated of the
\* first row of the input), and no line of six or more delimiter-separated
\* columns is accepted (under ParseSpec).
C14_NoSixthColumn ==
    /\ (/\ pc = "done"
        /\ ~ignored(input).ok
        /\ FourColumns(input).ok
        /\ Then(FourColumns(input), required_field).ok
        /\ Then(FourColumns(input), required_field).rem # <<>>
        /\ Then(FourColumns(input), required_field).rem[1] = DELIMITER_CHAR) =>
           result = ParseErr(UnrecognizedColumn)
    /\ (pc = "done" /\ result.tag = "Ok") =>
           \A k \in RowLines : Delimiters(Lines(input)[k]) < 5

\* the text of a port column with its delimiter, before the error is wrapped
port_column(s) == port_delimited(port_number(s))

\* the result of parsing the first k columns of the row s, no error wrapped
UpTo(k, s) ==
    CASE k = 0 -> POk(s, <<>>)
      [] k = 1 -> field_then_delimiter(s)
      [] k = 2 -> Then(field_then_delimiter(s), port_column)
      [] k = 3 -> Then(Then(field_then_delimiter(s), port_column),
                       field_then_delimiter)
      [] k = 4 -> Then(Then(Then(field_then_delimiter(s), port_column),
                            field_then_delimiter), field_then_delimiter)
      [] k = 5 -> Then(Then(Then(Then(field_then_delimiter(s), port_column),
                                 field_then_delimiter), field_then_delimiter),
                       required_field)

\* the row s fails in its k-th column
FailsIn(k, s) == UpTo(k - 1, s).ok /\ ~UpTo(k, s).ok

ColumnVariant ==
    <<"InvalidHostname", "InvalidPort", "InvalidDatabase", "InvalidUsername",
      "InvalidPassword">>

StripEnd(l) ==
    IF l # <<>> /\ l[Len(l)] = LF
    THEN IF Len(l) >= 2 /\ l[Len(l) - 1] = CR
         THEN SubSeq(l, 1, Len(l) - 2)
         ELSE SubSeq(l, 1, Len(l) - 1)
    ELSE l

\* the raw columns of a line: its text between delimiters that no escape
\* character precedes
RECURSIVE SplitColumns(_, _)
SplitColumns(s, cur) ==
    IF s = <<>> THEN <<cur>>
    ELSE IF s[1] = ESCAPE_CHAR /\ Len(s) >= 2
    THEN SplitColumns(Rest(s, 2), cur \o <<s[1], s[2]>>)
    ELSE IF s[1] = DELIMITER_CHAR THEN <<cur>> \o SplitColumns(Tail(s), <<>>)
    ELSE SplitColumns(Tail(s), Append(cur, s[1]))

RawColumns(l) == SplitColumns(StripEnd(l), <<>>)

\* the column holds a wildcard character that no escape character precedes
RECURSIVE HasBareWildcard(_)
HasBareWildcard(col) ==
    IF col = <<>> THEN FALSE
    ELSE IF col[1] = ESCAPE_CHAR THEN HasBareWildcard(Rest(col, IF Len(col) >= 2 THEN 2 ELSE 1))
    ELSE col[1] = WILDCARD_CHAR \/ HasBareWildcard(Tail(col))

\* the lines of a text that are neither blank nor comments, in order
RECURSIVE RowLinesOf(_)
RowLinesOf(ls) ==
    IF ls = <<>> THEN <<>>
    ELSE IF ls[1][1] = COMMENT_CHAR \/ StripEnd(ls[1]) = <<>>
    THEN RowLinesOf(Tail(ls))
    ELSE <<ls[1]>> \o RowLinesOf(Tail(ls))

RowFields(row) == <<row.hostname, row.port, row.database, row.username>>

ShorterOf(a, b) == IF a <= b THEN a ELSE b

\* C16: in a parsed document, a hostname, port, database or username is
\* None if and only if the raw text of its column is exactly "*"; and a line
\* in which a column holds an unescaped '*' together with other text is
\* rejected with an error (under ParseSpec).
C16_WildcardIsWholeColumn ==
    (pc = "done" /\ result.tag = "Ok") =>
        /\ \A i \in 1..ShorterOf(Len(result.patterns), Len(RowLinesOf(Lines(input)))) :
              \A j \in 1..4 :
                 /\ Len(RawColumns(RowLinesOf(Lines(input))[i])) >= j
                 /\ ~RowFields(result.patterns[i])[j].some
                        <=> RawColumns(RowLinesOf(Lines(input))[i])[j] = <<WILDCARD_CHAR>>
        /\ \A i \in 1..Len(RowLinesOf(Lines(input))) :
              \A j \in 1..Len(RawColumns(RowLinesOf(Lines(input))[i])) :
                 HasBareWildcard(RawColumns(RowLinesOf(Lines(input))[i])[j]) =>
                     Len(RawColumns(RowLinesOf(Lines(input))[i])[j]) = 1

\* every line feed of the text is bare: no carriage return precedes it
BareNewlines(s) ==
    /\ \E k \in 1..Len(s) : s[k] = LF
    /\ \A k \in 2..Len(s) : s[k] = LF => s[k - 1] # CR

\* the text with every line feed replaced by CR and line feed
RECURSIVE WithCRLF(_)
WithCRLF(s) ==
    IF s = <<>> THEN <<>>
    ELSE IF s[1] = LF THEN <<CR, LF>> \o WithCRLF(Tail(s))
    ELSE <<s[1]>> \o WithCRLF(Tail(s))

\* C17 as stated: for a text whose lines end in a bare newline, replacing
\* every line terminator by CR and newline yields the same parse result, an
\* equal document or the same error (under ParseSpec).
C17_EitherLinebreak ==
    (pc = "done" /\ BareNewlines(input)) => pgpass(WithCRLF(input)) = result

\* the result with the newline that an InvalidEscape error carries replaced
\* by a carriage return
CarriesCR(r) ==
    IF r.tag = "Err" /\ r.err.e = InvalidEscape(LF)
    THEN ParseErr(ParsingError(r.err.col, InvalidEscape(CR)))
    ELSE r

\* C17, amended: for a text whose lines end in a bare newline, replacing
\* every line terminator by CR and newline yields an equal document or the
\* same error, except that the InvalidEscape error of an escape character
\* that directly precedes a line terminator carries the CR in place of the
\* newline (under ParseSpec).
C17_EitherLinebreakButEscape ==
    (pc = "done" /\ BareNewlines(input)) =>
        pgpass(WithCRLF(input)) = CarriesCR(result)

\* a text of two rows, the first ended by a bare newline, has been parsed
C17_Witness ==
    /\ pc = "done"
    /\ BareNewlines(input)
    /\ result.tag = "Ok"
    /\ Len(result.patterns) = 2
    /\ pgpass(WithCRLF(input)) = result

\* where a line can be inserted in a text: at its start and after each of
\* its line feeds
LineStarts(s) == {0} \cup { k \in 1..Len(s) : s[k] = LF }

Insert(s, pos, l) == SubSeq(s, 1, pos) \o l \o Rest(s, pos)

\* blank lines and lines that begin with '#', one or two at a time; the
\* last holds a carriage return that no line feed follows
InsertedLines ==
    { <<LF>>,
      <<CR, LF>>,
      <<COMMENT_CHAR, LF>>,
      <<COMMENT_CHAR, "a", DELIMITER_CHAR, WILDCARD_CHAR, LF>>,
      <<COMMENT_CHAR, ESCAPE_CHAR, CR, LF>>,
      <<LF, COMMENT_CHAR, "h", ":", "1", ":", "d", ":", "u", ":", "p", LF>>,
      <<COMMENT_CHAR, "a", CR, "b", LF>> }

\* C18: inserting blank lines and lines that begin with '#', whatever their
\* content up to the end of the line, before, between or after the lines of
\* a text does not change the parse result; a comment at the end of the text
\* needs no line terminator (under ParseSpec).
C18_IgnoredLinesChangeNothing ==
    pc = "done" =>
        /\ \A pos \in LineStarts(input) : \A l \in InsertedLines :
               pgpass(Insert(input, pos, l)) = result
        /\ (input = <<>> \/ input[Len(input)] = LF) =>
               pgpass(input \o <<COMMENT_CHAR, "a">>) = result

\* the rows of the lines of a text, each line parsed alone, line after line
RECURSIVE RowsOfLines(_)
RowsOfLines(ls) ==
    IF ls = <<>> THEN <<>>
    ELSE pgpass(ls[1]).patterns \o RowsOfLines(Tail(ls))

\* C19: the row list of a document is the patterns added since the last
\* clear, in the order they were added: add and with append their pattern at
\* the end and leave the rows before it as they were, clear leaves the list
\* empty, nothing else changes the list, and a parsed document lists its rows
\* in the order of the lines of its input (under DocSpec).
C19_RowsInOrderAdded ==
    [][/\ \A cred \in PatternPool(Len(patterns) + 1) :
             (add(cred) \/ with(cred)) =>
                /\ Len(patterns') = Len(patterns) + 1
                /\ SubSeq(patterns', 1, Len(patterns)) = patterns
                /\ patterns'[Len(patterns')] = cred
       /\ clear => patterns' = <<>>
       /\ FromStr => patterns' = RowsOfLines(Lines(input))
       /\ patterns' # patterns =>
             \/ clear
             \/ FromStr
             \/ \E cred \in PatternPool(Len(patterns) + 1) : add(cred) \/ with(cred)
      ]_vars

\* a pattern has been added to a document parsed from a text of one row
C19_Witness ==
    /\ pc = "document"
    /\ result.tag = "Ok"
    /\ Len(result.patterns) = 1
    /\ Len(patterns) = 2
    /\ patterns[1] = result.patterns[1]
    /\ patterns[2] # patterns[1]

\* the string is empty or holds a CR or an LF
EmptyOrLinebreak(s) == s = <<>> \/ \E k \in 1..Len(s) : s[k] = CR \/ s[k] = LF

InvalidFieldVariants ==
    {"InvalidHostname", "InvalidDatabase", "InvalidUsername", "InvalidPassword"}

\* the setter's result r is an error exactly for an empty string or one that
\* holds a line break, an InvalidField that tells which; a success is `set`
StringSetter(s, r, set) ==
    /\ ~r.ok <=> EmptyOrLinebreak(s)
    /\ ~r.ok => /\ r.err.variant \in InvalidFieldVariants
                /\ r.err.invalidity = (IF s = <<>> THEN "Empty" ELSE "ContainsLinebreak")
    /\ r.ok => r.val = set

\* the port setter's result r is InvalidPortNumber exactly for port 0
PortSetter(n, r, set) ==
    /\ ~r.ok <=> n = 0
    /\ ~r.ok => r.err.variant = "InvalidPortNumber"
    /\ r.ok => r.val = set

\* C20: every string setter of the pattern builder (hostname, database,
\* username, password) and of the query builder (hostname, database,
\* username) returns an InvalidField error if and only if its string is
\* empty or holds a CR or LF, and on success sets that field, and no other,
\* to the string; the port setters fail, with InvalidPortNumber, if and only
\* if the port is 0 (under SetterSpec).
C20_SettersValidate ==
    [][/\ \A s \in HostnameArgs(1) : CallHostname(s) =>
             StringSetter(s, result', [builder EXCEPT !.cred.hostname = Some(s)])
       /\ \A s \in DatabaseArgs(1) : CallDatabase(s) =>
             StringSetter(s, result', [builder EXCEPT !.cred.database = Some(s)])
       /\ \A s \in UsernameArgs(1) : CallUsername(s) =>
             StringSetter(s, result', [builder EXCEPT !.cred.username = Some(s)])
       /\ \A s \in PasswordArgs(1) : CallPassword(s) =>
             StringSetter(s, result',
                          [builder EXCEPT !.cred.password = s, !.tag = "HasPasswordTrue"])
       /\ \A n \in PortArgs(1) : CallPort(n) =>
             PortSetter(n, result', [builder EXCEPT !.cred.port = SomePort(n)])
       /\ \A s \in QueryStringArgs : QueryBuilderHostname(s) =>
             StringSetter(s, result', [query EXCEPT !.hostname = Some(s)])
       /\ \A s \in QueryStringArgs : QueryBuilderDatabase(s) =>
             StringSetter(s, result', [query EXCEPT !.database = Some(s)])
       /\ \A s \in QueryStringArgs : QueryBuilderUsername(s) =>
             StringSetter(s, result', [query EXCEPT !.username = Some(s)])
       /\ \A n \in QueryPortArgs : QueryBuilderPort(n) =>
             PortSetter(n, result', [query EXCEPT !.port = SomePort(n)])
      ]_vars

\* a setter of the query builder has refused a string that holds a line
\* break, after which the query is dropped
C20_Witness ==
    /\ pc = "query"
    /\ result # Pending
    /\ ~result.ok
    /\ result.err.invalidity = "ContainsLinebreak"
    /\ query = DefaultQuery

-----------------------------------------------------------------------------
(* Conversion, formatting and resource claims.                             *)

\* hostname, database and username of the pattern are all concrete
AllConcrete(p) == p.hostname.some /\ p.database.some /\ p.username.some

\* C21: for every complete pattern p, p.exact() is true if and only if
\* hostname, database and username are all concrete, and that if and only if
\* converting p to Credentials succeeds; the Credentials then carry p's
\* fields, with port 5432 if p's port is wildcard (under ConvertSpec).
C21_ExactIffConverts ==
    /\ result # Pending => (result.val <=> AllConcrete(patterns[1]))
    /\ found # NotCalled =>
          /\ found.tag = "Some" <=> AllConcrete(patterns[1])
          /\ found.tag \in {"Some", "Err"}
          /\ found.tag = "Some" =>
                /\ found.creds.hostname = patterns[1].hostname.v
                /\ found.creds.database = patterns[1].database.v
                /\ found.creds.username = patterns[1].username.v
                /\ found.creds.password = patterns[1].password
                /\ found.creds.port =
                      (IF patterns[1].port.some THEN patterns[1].port.v ELSE 5432)
    /\ (result # Pending /\ found # NotCalled) =>
          (result.val <=> found.tag = "Some")

\* an exact pattern with a wildcard port was converted, to port 5432
C21_Witness ==
    /\ result # Pending
    /\ result.val
    /\ found.tag = "Some"
    /\ ~patterns[1].port.some
    /\ found.creds.port = 5432

\* passwords other than the one a value carries
OtherPasswords == { Str("s"), <<"p", "q">>, <<"\"", "h">>, <<"[", " ", "C">> }

\* the text ends with the given text
EndsWith(text, end) ==
    Len(text) >= Len(end) /\ SubSeq(text, Len(text) - Len(end) + 1, Len(text)) = end

\* C22: the Debug formatting of a Credentials value does not depend on its
\* password: Credentials that differ only in the password give the same
\* output, whose password field is the fixed text "[ Censored ]" (under
\* ConvertSpec).
C22_DebugCensorsPassword ==
    pc = "Credentials" =>
        /\ \A pw \in OtherPasswords :
              Credentials_fmt([found.creds EXCEPT !.password = pw]) = sink
        /\ EndsWith(sink, <<"password", ": ", "\"">> \o Censored \o <<"\"", " }">>)

\* Credentials whose password is "qr" have been formatted
C22_Witness ==
    /\ pc = "Credentials"
    /\ found.creds.password = <<"q", "r">>
    /\ sink # <<>>

\* what an error value holds of the input: the character of InvalidEscape
\* and the digits of InvalidPortNumber
CopiedFromInput(err) ==
    (IF err.e.ch = "-" THEN <<>> ELSE <<err.e.ch>>) \o err.e.num

\* the character follows an escape character of the text
FollowsEscape(c, s) ==
    \E k \in 1..(Len(s) - 1) : s[k] = ESCAPE_CHAR /\ s[k + 1] = c

\* C23 as stated: every error that parse returns carries at most one
\* character copied from the input, the character that follows an escape
\* character, and never the full content of a field (under ParseSpec).
C23_ErrorsCarryOneCharacter ==
    (pc = "done" /\ result.tag = "Err") =>
        /\ Len(CopiedFromInput(result.err)) <= 1
        /\ result.err.e.ch # "-" => FollowsEscape(result.err.e.ch, remaining)
        /\ \A k \in 1..5 : FailsIn(k, remaining) =>
              \/ CopiedFromInput(result.err) = <<>>
              \/ CopiedFromInput(result.err) # ColumnText(UpTo(k - 1, remaining).rem)

\* the leading digits of a column, as a number
LeadingNumber(col) == Canonical(SubSeq(col, 1, DigitPrefixLen(col)))

\* C23, amended: every error that parse returns carries at most one
\* character copied from the input, the character that follows an escape
\* character, or, for InvalidPortNumber, the numeric value of the port
\* column, and never the full content of a hostname, database, username or
\* password field (under ParseSpec).
C23_ErrorsCarryCharacterOrPort ==
    (pc = "done" /\ result.tag = "Err") =>
        /\ result.err.e.kind = "InvalidPortNumber" =>
              /\ result.err.col = "InvalidPort"
              /\ result.err.e.ch = "-"
              /\ result.err.e.num = LeadingNumber(PortColumn(remaining))
        /\ result.err.e.kind # "InvalidPortNumber" =>
              /\ result.err.e.num = <<>>
              /\ Len(CopiedFromInput(result.err)) <= 1
        /\ result.err.e.ch # "-" =>
              /\ result.err.e.kind = "InvalidEscape"
              /\ FollowsEscape(result.err.e.ch, remaining)
        /\ \A k \in {1, 3, 4, 5} : FailsIn(k, remaining) =>
              \/ CopiedFromInput(result.err) = <<>>
              \/ CopiedFromInput(result.err) # ColumnText(UpTo(k - 1, remaining).rem)

\* a password with an invalid escape sequence has been refused
C23_Witness ==
    /\ pc = "done"
    /\ result.tag = "Err"
    /\ FailsIn(5, remaining)
    /\ result.err.e.kind = "InvalidEscape"
    /\ result.err.e.ch = "a"

\* the column that starts the text holds an escape character that ends the
\* input, every escape character before it paired
OpenEscape(s) == ~Decoded(s, <<>>).ok /\ Decoded(s, <<>>).level = "open"

\* C24: parsing a column fails with InvalidEscapeNoChar if and only if the
\* column holds an escape character that no character follows, the last
\* character of the input; the error is never reported for a column that
\* holds no escape character (under FieldSpec).
C24_NoCharOnlyAfterEscape ==
    pc \in {"field", "required_field"} =>
        /\ (~result.ok /\ result.err = FieldError("InvalidEscapeNoChar"))
              <=> OpenEscape(input)
        /\ (~result.ok /\ result.err = FieldError("InvalidEscapeNoChar"))
              => \E k \in 1..Len(ColumnText(input)) : ColumnText(input)[k] = ESCAPE_CHAR

\* C25: in a parsed document each row was read from one whole line of five
\* columns: there are as many rows as lines that are neither blank nor
\* comments, the i-th row is the row of the i-th such line, and no line
\* gives two rows (under ParseSpec).
C25_OneRowPerLine ==
    (pc = "done" /\ result.tag = "Ok") =>
        /\ Len(result.patterns) = Len(RowLinesOf(Lines(input)))
        /\ \A i \in 1..Len(RowLinesOf(Lines(input))) :
              /\ Len(RawColumns(RowLinesOf(Lines(input))[i])) = 5
              /\ pgpass(RowLinesOf(Lines(input))[i]).tag = "Ok"
              /\ Len(pgpass(RowLinesOf(Lines(input))[i]).patterns) = 1
              /\ i <= Len(result.patterns)
              /\ pgpass(RowLinesOf(Lines(input))[i]).patterns[1] = result.patterns[i]

\* the setter's result r, if an error, is the given variant of InvalidField
Names(r, variant) == ~r.ok => r.err.variant = variant

\* C26: when a setter refuses its argument, the InvalidField variant names
\* the field being set: InvalidHostname from the hostname setters,
\* InvalidDatabase from the database setters, InvalidUsername from the
\* username setters and InvalidPassword from the password setter, of the
\* pattern and of the query (under SetterSpec).
C26_VariantNamesField ==
    [][/\ \A s \in HostnameArgs(1) : CallHostname(s) => Names(result', "InvalidHostname")
       /\ \A s \in DatabaseArgs(1) : CallDatabase(s) => Names(result', "InvalidDatabase")
       /\ \A s \in UsernameArgs(1) : CallUsername(s) => Names(result', "InvalidUsername")
       /\ \A s \in PasswordArgs(1) : CallPassword(s) => Names(result', "InvalidPassword")
       /\ \A s \in QueryStringArgs :
             QueryBuilderHostname(s) => Names(result', "InvalidHostname")
       /\ \A s \in QueryStringArgs :
             QueryBuilderDatabase(s) => Names(result', "InvalidDatabase")
       /\ \A s \in QueryStringArgs :
             QueryBuilderUsername(s) => Names(result', "InvalidUsername")
      ]_vars

\* the document before its last row was added
BeforeLast == SubSeq(patterns, 1, Len(patterns) - 1)

\* C27: appending a pattern does not change the answer of a query that
\* already matched: if find on the document without its last row gives
\* Some(c) or Err(e), find on the document gives the same; only Ok(None)
\* changes, to the resolution of the query against the added row alone
\* (under Spec).
C27_AppendKeepsAnswers ==
    (Called /\ patterns # <<>>) =>
        /\ find(BeforeLast, query).tag \in {"Some", "Err"} =>
              found = find(BeforeLast, query)
        /\ find(BeforeLast, query).tag = "None" =>
              found = find(<<patterns[Len(patterns)]>>, query)

\* a query was answered from the first row although the row added after it
\* is compatible with the query too
C27_Witness ==
    /\ Called
    /\ Len(patterns) = 2
    /\ found.tag = "Some"
    /\ found.creds.password = patterns[1].password
    /\ ~Skips(query, patterns[2])
    /\ find(<<patterns[2]>>, query).tag = "Some"

\* C28: parse terminates on every input: an iteration of the document loop
\* returns or strictly shortens the remaining input, as a blank line, a
\* comment and a row each consume at least one character, and the loop
\* comes to its return (under ParseFairSpec).
C28_ParseTerminates ==
    /\ [][pc = "loop" => (pc' = "done" \/ Len(remaining') < Len(remaining))]_vars
    /\ <>(pc = "done")

\* a text of a comment, a blank line and rows has been parsed to its end
C28_Witness ==
    /\ pc = "done"
    /\ input # <<>>
    /\ input[1] = COMMENT_CHAR
    /\ result.tag = "Ok"
    /\ result.patterns # <<>>
    /\ remaining = <<>>

\* the encodings of the rows, one after the other
RECURSIVE Encodings(_)
Encodings(pats) ==
    IF pats = <<>> THEN <<>>
    ELSE encode_into(pats[1], <<>>) \o Encodings(Tail(pats))

\* C29: whenever save_into returns Ok, the sink has received the encodings
\* of all rows in document order and nothing else, also when its write call
\* accepts fewer bytes than it was offered: no byte of a row is dropped
\* (under SaveSpec).
C29_SavedIsWholeDocument ==
    pc = "saved" => sink = Encodings(patterns)

\* the rows with other passwords in place of their own
WithPassword(pats, pw) == [i \in 1..Len(pats) |-> [pats[i] EXCEPT !.password = pw]]

\* C30: the Debug formatting of a CredentialPattern, and of a PgPass that
\* holds patterns, does not reveal a row's password: values that differ
\* only in their passwords give the same Debug output (under ConvertSpec).
C30_DebugHidesRowPasswords ==
    /\ pc = "CredentialPattern" =>
          \A pw \in OtherPasswords :
              CredentialPattern_fmt([patterns[1] EXCEPT !.password = pw]) = sink
    /\ pc = "PgPass" =>
          \A pw \in OtherPasswords : PgPass_fmt(WithPassword(patterns, pw)) = sink

=============================================================================
